---- MODULE Spec2Model ----
(***************************************************************************)
(* Model of download_script.py: one invocation of main() evaluates a fixed *)
(* list of download tasks, each gated by a draw from the process-wide      *)
(* pseudorandom stream, and prints a summary.                              *)
(*                                                                         *)
(* Numbers.  Wall-clock time is a pair [sec, frac]: whole seconds since    *)
(* the epoch and a sub-second part counted in 1/TicksPerSec of a second    *)
(* (32-bit integers do not hold seconds * ticks).                          *)
(* Probabilities are fixed point: a draw of random.random() is an integer  *)
(* in 0..999 standing for draw/1000, the weekly multiplier is in           *)
(* thousandths, base probabilities are in hundredths.                      *)
(*                                                                         *)
(* The generator.  Python's random module (a Mersenne Twister) is stood    *)
(* for by a 16-bit linear congruential generator: what the program relies  *)
(* on is kept, namely that the stream is one process-wide state, that      *)
(* seed(s) sets the state from s alone, and that every random() call       *)
(* advances the state and returns a value determined by it.                *)
(*                                                                         *)
(* Local time is UTC (datetime.now() is naive local time).                 *)
(***************************************************************************)
EXTENDS Integers, Sequences, FiniteSets, TLC

VARIABLES
    pc,          \* position of the current invocation of main(); "crashed" when
                 \* an exception left main() and the process died
    rng,         \* state of the process-wide pseudorandom stream
    now,         \* datetime.now() of line 266, as [sec, frac]
    week_num,    \* line 267
    prob_adj,    \* line 268, in thousandths
    time_time,   \* the value time.time() returned at line 275, as [sec, frac]
    now_ts,      \* line 275: int(time.time())
    results,     \* line 274: sequence of <<task name, status>>
    out,         \* the summary lines printed by lines 370-375
    calls,       \* history: <<task, function or command, argument>> of every
                 \* existence check, adapter call and docker command of the run
    draws,       \* history: <<task, value>> of every random.random() of main
    answers,     \* history: the outside world's answers to the latest task
    prev,        \* history: what the previous invocation decided (<<>> if none)
    schedule,    \* the instants at which the job may be invoked
    multipliers  \* values returned by successive week_probability_adjustment calls

vars == <<pc, rng, now, week_num, prob_adj, time_time, now_ts, results, out,
          calls, draws, answers, prev,
          schedule, multipliers>>

-----------------------------------------------------------------------------
(* Bounds of the model *)

\* sub-second resolution of the modelled clock
TicksPerSec == 2
\* largest delay, in ticks, between datetime.now() (266) and time.time() (275)
MaxDelay == 1
\* the stream state a fresh interpreter starts in is one of 0..MaxPrior
MaxPrior == 1
\* the weekly schedule holds one instant in each of this many consecutive weeks
WeeksSampled == 53
\* week_probability_adjustment is called at most this often in SpecAdj
MaxAdjCalls == 2

-----------------------------------------------------------------------------
(* Program constants *)

cutoff_ts == 1762339200
JitterSeedMask == 41127          \* 0xA0A7

\* round(1000 * math.sin(w / 2.0)) for w = 1..53
SinHalfMilli ==
    <<479, 841, 997, 909, 598, 141, -351, -757, -978, -959, -706, -279, 215,
      657, 938, 989, 798, 412, -75, -544, -880, -1000, -875, -537, -66, 420,
      804, 991, 935, 650, 206, -288, -712, -961, -976, -751, -342, 150, 606,
      913, 997, 837, 472, -9, -487, -846, -998, -906, -591, -132, 359, 763,
      979>>

-----------------------------------------------------------------------------
(* The pseudorandom stream *)

RECURSIVE xor(_, _)
xor(a, b) ==
    IF a = 0 THEN b
    ELSE IF b = 0 THEN a
    ELSE (((a % 2) + (b % 2)) % 2) + 2 * xor(a \div 2, b \div 2)

lcg(x) == (25173 * x + 13849) % 65536

\* random.seed(s): the state depends on s only
random_seed(s) == s % 65536

\* random.random(): advances the state; the value is in [0, 1), in thousandths
random_random_stuck(state) == [value |-> (state * 1000) \div 65536, state |-> state]
random_random(state) ==
    [value |-> (lcg(state) * 1000) \div 65536, state |-> lcg(state)]

-----------------------------------------------------------------------------
(* Time *)

\* the proleptic Gregorian year of a day number (days since 1970-01-01)
year_of_day(day) ==
    LET z   == day + 719468
        era == z \div 146097
        doe == z - era * 146097
        yoe == (doe - doe \div 1460 + doe \div 36524 - doe \div 146096) \div 365
        doy == doe - (365 * yoe + yoe \div 4 - yoe \div 100)
        mp  == (5 * doy + 2) \div 153
    IN  yoe + era * 400 + (IF mp < 10 THEN 0 ELSE 1)

\* the day number of January 1st of year y
jan1_of_year(y) ==
    LET yy  == y - 1
        era == yy \div 400
        yoe == yy - era * 400
    IN  era * 146097 + yoe * 365 + yoe \div 4 - yoe \div 100 + 306 - 719468

\* now.isocalendar()[1]: the ISO week is the week of the year of its Thursday
isocalendar_week(t) ==
    LET day == t.sec \div 86400
        wd  == (day + 3) % 7             \* 0 = Monday; 1970-01-01 was a Thursday
        thu == day - wd + 3
    IN  (thu - jan1_of_year(year_of_day(thu))) \div 7 + 1

\* the instant d ticks after t
TimeAfter(t, d) ==
    [sec  |-> t.sec + (t.frac + d) \div TicksPerSec,
     frac |-> (t.frac + d) % TicksPerSec]

\* int(now.timestamp() / 60), line 272
run_seed_seconds(t) == t.sec
run_seed(t) == t.sec \div 60

\* int(time.time()), line 275
int_time(t) == t.sec

\* line 332
github_window_open_strict(ts) == ts < cutoff_ts
github_window_open(ts) == ts <= cutoff_ts

-----------------------------------------------------------------------------
(* The weekly multiplier, lines 249-260: [value, state], the value in       *)
(* thousandths and the state the call leaves the process-wide stream in     *)

Max(a, b) == IF a >= b THEN a ELSE b
Min(a, b) == IF a <= b THEN a ELSE b

week_probability_adjustment_noseed(week, state) ==
    LET base   == 1000 + (150 * SinHalfMilli[week]) \div 1000
        d      == random_random(state)
        jitter == (120 * d.value) \div 1000 - 50
    IN  [value |-> Max(700, Min(1350, base + jitter)), state |-> d.state]

week_probability_adjustment(week, state) ==
    LET base   == 1000 + (150 * SinHalfMilli[week]) \div 1000
        d      == random_random(random_seed(xor(week, JitterSeedMask)))
        jitter == (120 * d.value) \div 1000 - 50      \* uniform(-0.05, 0.07)
    IN  [value |-> Max(700, Min(1350, base + jitter)), state |-> d.state]

\* random.random() < base * prob_adj, base in hundredths (lines 284, 293, ...)
triggered_unadjusted(draw, base, adj) == draw * 100 < base * 1000
triggered(draw, base, adj) == draw * 100 < base * adj

-----------------------------------------------------------------------------
(* What the outside world answers *)

\* snapshot_download: returns, or raises (the import may fail too)
HubOutcomes == {"ok", "transport_error", "auth_error", "timeout", "import_error"}
\* subprocess.run: an exit status, TimeoutExpired or FileNotFoundError
ToolOutcomes == {"exit_0", "exit_nonzero", "timeout", "missing_tool"}
\* requests.get: a status code, or an exception
HttpOutcomes == {"200", "404", "500", "raise"}

-----------------------------------------------------------------------------------------------------------------------------------------------------
(* Existence checks and fetch adapters.  An adapter yields [ret, ext]: what *)
(* it returns ("True", "False", or "raise" when an exception leaves it) and *)
(* the external commands it ran, each <<command, argument, answer>>.        *)

check_npm_package_exists_failopen(package_name, h) == h # "404"
check_npm_package_exists(package_name, h) == h = "200"

check_crates_package_exists(package_name, h) == h = "200"

download_huggingface_dataset(repo_id, o) ==
    [ret |-> IF o = "ok" THEN "True" ELSE "False",
     ext |-> << <<"snapshot_download", repo_id, o>> >>]

download_huggingface_model(repo_id, o) ==
    [ret |-> IF o = "ok" THEN "True" ELSE "False",
     ext |-> << <<"snapshot_download", repo_id, o>> >>]

download_npm_package_uncaught(package_name, o) ==
    [ret |-> IF o = "exit_0" THEN "True"
             ELSE IF o = "exit_nonzero" THEN "False" ELSE "raise",
     ext |-> << <<"npm pack", package_name, o>> >>]
download_npm_package(package_name, o) ==
    [ret |-> IF o = "exit_0" THEN "True" ELSE "False",
     ext |-> << <<"npm pack", package_name, o>> >>]

download_crates_package(package_name, o) ==
    [ret |-> IF o = "exit_0" THEN "True" ELSE "False",
     ext |-> << <<"cargo install", package_name, o>> >>]

\* lines 139-174: the removal runs inside the same try block as the pull
download_docker_image(image_name, pull, rmi) ==
    IF pull = "exit_0"
    THEN [ret |-> IF rmi \in {"exit_0", "exit_nonzero"} THEN "True" ELSE "False",
          ext |-> << <<"docker pull", image_name, pull>>,
                     <<"docker rmi", image_name, rmi>> >>]
    ELSE [ret |-> "False", ext |-> << <<"docker pull", image_name, pull>> >>]

\* a package URL https://github.com/{owner}/{repo}/pkgs/{kind}/{name},
\* as the tuple <<owner, repo, kind, name>> that the regular expression extracts
GitHubUrl(owner, repo, kind, name) == <<owner, repo, kind, name>>

\* lines 176-226; the .npmrc written when GITHUB_TOKEN is set changes only
\* what npm answers
download_github_npm_package(pkg_url, o) ==
    IF pkg_url[3] # "npm"
    THEN [ret |-> "False", ext |-> <<>>]
    ELSE [ret |-> IF o = "exit_0" THEN "True" ELSE "False",
          ext |-> << <<"npm pack", <<"@", pkg_url[1], pkg_url[4]>>, o>> >>]

download_github_container_image(pkg_url, pull, rmi) ==
    IF pkg_url[3] # "container"
    THEN [ret |-> "False", ext |-> <<>>]
    ELSE download_docker_image(<<"ghcr.io", pkg_url[1], pkg_url[4], "latest">>,
                               pull, rmi)

-----------------------------------------------------------------------------
(* The tasks of main(), lines 278-367.  Each yields what it adds to the run: *)
(* [raised, results, calls, answers]; raised means an exception left the     *)
(* task, answers are the outside world's answers the task received.          *)

Fetched(k, fn, arg, name, a) ==
    [raised  |-> a.ret = "raise",
     results |-> IF a.ret = "raise" THEN <<>> ELSE << <<name, a.ret>> >>,
     calls   |-> << <<k, fn, arg>> >> \o
                 [i \in 1..Len(a.ext) |-> <<k, a.ext[i][1], a.ext[i][2]>>],
     answers |-> [i \in 1..Len(a.ext) |-> a.ext[i][3]]]

Skipped(name) ==
    [raised |-> FALSE, results |-> << <<name, "skipped">> >>, calls |-> <<>>,
     answers |-> <<>>]

Checked(k, fn, arg, h, step) ==
    [step EXCEPT !.calls = << <<k, fn, arg>> >> \o @, !.answers = <<h>> \o @]

\* lines 278-281: no draw, no condition
task_dataset(o) ==
    Fetched(1, "download_huggingface_dataset", <<"a0a7/Gregg-1916">>,
            "HuggingFace dataset a0a7/Gregg-1916",
            download_huggingface_dataset(<<"a0a7/Gregg-1916">>, o))

\* lines 283-290
task_model(hit, o) ==
    IF hit
    THEN Fetched(2, "download_huggingface_model", <<"a0a7/gregg-recognition">>,
                 "HuggingFace model a0a7/gregg-recognition",
                 download_huggingface_model(<<"a0a7/gregg-recognition">>, o))
    ELSE Skipped("HuggingFace model a0a7/gregg-recognition")

\* lines 292-305 with a second attempt on the other package after a failure
task_npm_retrying(hit, h, o) ==
    IF ~hit THEN Skipped("npm package")
    ELSE LET first == Fetched(3, "download_npm_package", <<"fastgeotoolkit">>,
                              "npm package fastgeotoolkit",
                              download_npm_package(<<"fastgeotoolkit">>, o))
             again == Fetched(3, "download_npm_package", <<"heatmap-parse">>,
                              "npm package heatmap-parse",
                              download_npm_package(<<"heatmap-parse">>, o))
         IN  Checked(3, "check_npm_package_exists", <<"fastgeotoolkit">>, h,
                 IF ~check_npm_package_exists(<<"fastgeotoolkit">>, h) THEN again
                 ELSE IF first.results = << <<"npm package fastgeotoolkit", "True">> >>
                 THEN first
                 ELSE [again EXCEPT !.calls = first.calls \o @,
                                     !.answers = first.answers \o @])

\* lines 292-305
task_npm(hit, h, o) ==
    IF ~hit THEN Skipped("npm package")
    ELSE Checked(3, "check_npm_package_exists", <<"fastgeotoolkit">>, h,
             IF check_npm_package_exists(<<"fastgeotoolkit">>, h)
             THEN Fetched(3, "download_npm_package", <<"fastgeotoolkit">>,
                          "npm package fastgeotoolkit",
                          download_npm_package(<<"fastgeotoolkit">>, o))
             ELSE Fetched(3, "download_npm_package", <<"heatmap-parse">>,
                          "npm package heatmap-parse",
                          download_npm_package(<<"heatmap-parse">>, o)))

\* lines 307-320
task_crates(hit, h, o) ==
    IF ~hit THEN Skipped("crates package")
    ELSE Checked(4, "check_crates_package_exists", <<"fastgeotoolkit">>, h,
             IF check_crates_package_exists(<<"fastgeotoolkit">>, h)
             THEN Fetched(4, "download_crates_package", <<"fastgeotoolkit">>,
                          "crates package fastgeotoolkit",
                          download_crates_package(<<"fastgeotoolkit">>, o))
             ELSE Fetched(4, "download_crates_package", <<"heatmap-parse">>,
                          "crates package heatmap-parse",
                          download_crates_package(<<"heatmap-parse">>, o)))

\* lines 322-329
task_docker(hit, pull, rmi) ==
    IF hit
    THEN Fetched(5, "download_docker_image", <<"a0a7/publicbroadcastarr">>,
                 "Docker image a0a7/publicbroadcastarr",
                 download_docker_image(<<"a0a7/publicbroadcastarr">>, pull, rmi))
    ELSE Skipped("Docker image a0a7/publicbroadcastarr")

\* lines 333-340
task_github_npm_fastgeotoolkit(hit, o) ==
    LET url == GitHubUrl("a0a7", "fastgeotoolkit", "npm", "fastgeotoolkit")
    IN  IF hit
        THEN Fetched(6, "download_github_npm_package", url,
                     "GitHub npm package @a0a7/fastgeotoolkit",
                     download_github_npm_package(url, o))
        ELSE Skipped("GitHub npm package @a0a7/fastgeotoolkit")

\* lines 342-349
task_github_container_publicbroadcastarr(hit, pull, rmi) ==
    LET url == GitHubUrl("a0a7", "publicbroadcastarr", "container", "publicbroadcastarr")
    IN  IF hit
        THEN Fetched(7, "download_github_container_image", url,
                     "GitHub container image ghcr.io/a0a7/publicbroadcastarr",
                     download_github_container_image(url, pull, rmi))
        ELSE Skipped("GitHub container image ghcr.io/a0a7/publicbroadcastarr")

\* lines 351-358
task_github_npm_heatmap_parse(hit, o) ==
    LET url == GitHubUrl("a0a7", "heatmap-parse", "npm", "heatmap-parse")
    IN  IF hit
        THEN Fetched(8, "download_github_npm_package", url,
                     "GitHub npm package @a0a7/heatmap-parse",
                     download_github_npm_package(url, o))
        ELSE Skipped("GitHub npm package @a0a7/heatmap-parse")

\* lines 360-367
task_github_container_svtplayarr(hit, pull, rmi) ==
    LET url == GitHubUrl("a0a7", "svtplayarr", "container", "svtplayarr")
    IN  IF hit
        THEN Fetched(9, "download_github_container_image", url,
                     "GitHub container image ghcr.io/a0a7/svtplayarr",
                     download_github_container_image(url, pull, rmi))
        ELSE Skipped("GitHub container image ghcr.io/a0a7/svtplayarr")

\* lines 370-375: the header, one line per result, the completion line
summary_lines_terse(res) ==
    << <<"Download job completed. Summary:">> >> \o
    SelectSeq([i \in 1..Len(res) |-> <<"  task: result", res[i][1], res[i][2]>>],
              LAMBDA l : l[3] # "skipped") \o
    << <<"Job completed at">> >>
summary_lines(res) ==
    << <<"Download job completed. Summary:">> >> \o
    [i \in 1..Len(res) |-> <<"  task: result", res[i][1], res[i][2]>>] \o
    << <<"Job completed at">> >>

-----------------------------------------------------------------------------
(* The schedules *)

CutoffInstant == [sec |-> cutoff_ts, frac |-> 0]

\* instants around the cutoff: the minute before it and the minute it opens
CutoffSchedule ==
    { [sec |-> cutoff_ts - 60, frac |-> 0],
      [sec |-> cutoff_ts - 1,  frac |-> TicksPerSec - 1],
      CutoffInstant,
      [sec |-> cutoff_ts,      frac |-> 1],
      [sec |-> cutoff_ts + 1,  frac |-> 0],
      [sec |-> cutoff_ts + 59, frac |-> TicksPerSec - 1] }

\* one instant in each of WeeksSampled consecutive weeks, the first of them
\* 2019-12-30 00:00:07 UTC, in ISO week 1 of 2020 (a year of 53 weeks)
WeeklySchedule ==
    { [sec |-> 1577664007 + k * 604800, frac |-> 0] : k \in 0..(WeeksSampled - 1) }

NoTime == [sec |-> 0, frac |-> 0]

-----------------------------------------------------------------------------
(* The state machine *)

InitWith(times) ==
    /\ pc = "start"
    /\ rng \in 0..MaxPrior
    /\ now = NoTime
    /\ week_num = 0
    /\ prob_adj = 0
    /\ time_time = NoTime
    /\ now_ts = 0
    /\ results = <<>>
    /\ out = <<>>
    /\ calls = <<>>
    /\ draws = <<>>
    /\ answers = <<>>
    /\ prev = <<>>
    /\ schedule = times
    /\ multipliers = <<>>

Init == InitWith(CutoffSchedule)

InitWeeks == InitWith(WeeklySchedule)

\* the triggered/skipped decisions a results sequence shows, in order
Decisions(res) ==
    [i \in 1..Len(res) |-> IF res[i][2] = "skipped" THEN "skipped" ELSE "triggered"]

Advance(step, nxt) ==
    /\ results' = results \o step.results
    /\ calls' = calls \o step.calls
    /\ answers' = step.answers
    /\ pc' = IF step.raised THEN "crashed" ELSE nxt

Static == <<now, week_num, prob_adj, time_time, now_ts, out, prev, schedule,
            multipliers>>

\* lines 264-276: the job is invoked at an instant t of the schedule
main_start ==
    /\ pc = "start"
    /\ \E t \in schedule, d \in 0..MaxDelay :
         LET adj == week_probability_adjustment(isocalendar_week(t), rng)
         IN  /\ now' = t
             /\ week_num' = isocalendar_week(t)
             /\ prob_adj' = adj.value
             /\ rng' = random_seed(run_seed(t))
             /\ time_time' = TimeAfter(t, d)
             /\ now_ts' = int_time(TimeAfter(t, d))
    /\ results' = <<>>
    /\ pc' = "task1"
    /\ UNCHANGED <<out, calls, draws, answers, prev, schedule, multipliers>>

task1 ==
    /\ pc = "task1"
    /\ \E o \in HubOutcomes : Advance(task_dataset(o), "task2")
    /\ UNCHANGED <<rng, draws>>
    /\ UNCHANGED Static

task2 ==
    /\ pc = "task2"
    /\ LET d == random_random(rng)
       IN  /\ rng' = d.state
           /\ draws' = Append(draws, <<2, d.value>>)
           /\ \E o \in HubOutcomes :
                Advance(task_model(triggered(d.value, 30, prob_adj), o), "task3")
    /\ UNCHANGED Static

task3 ==
    /\ pc = "task3"
    /\ LET d == random_random(rng)
       IN  /\ rng' = d.state
           /\ draws' = Append(draws, <<3, d.value>>)
           /\ \E h \in HttpOutcomes, o \in ToolOutcomes :
                Advance(task_npm(triggered(d.value, 85, prob_adj), h, o), "task4")
    /\ UNCHANGED Static

task4 ==
    /\ pc = "task4"
    /\ LET d == random_random(rng)
       IN  /\ rng' = d.state
           /\ draws' = Append(draws, <<4, d.value>>)
           /\ \E h \in HttpOutcomes, o \in ToolOutcomes :
                Advance(task_crates(triggered(d.value, 95, prob_adj), h, o), "task5")
    /\ UNCHANGED Static

\* lines 322-332: after the task, the cutoff decides whether the GitHub group runs
task5 ==
    /\ pc = "task5"
    /\ LET d == random_random(rng)
       IN  /\ rng' = d.state
           /\ draws' = Append(draws, <<5, d.value>>)
           /\ \E pull \in ToolOutcomes, rmi \in ToolOutcomes :
                Advance(task_docker(triggered(d.value, 40, prob_adj), pull, rmi),
                        IF github_window_open(now_ts) THEN "task6" ELSE "summary")
    /\ UNCHANGED Static

task6 ==
    /\ pc = "task6"
    /\ LET d == random_random(rng)
       IN  /\ rng' = d.state
           /\ draws' = Append(draws, <<6, d.value>>)
           /\ \E o \in ToolOutcomes :
                Advance(task_github_npm_fastgeotoolkit(
                            triggered(d.value, 80, prob_adj), o), "task7")
    /\ UNCHANGED Static

task7 ==
    /\ pc = "task7"
    /\ LET d == random_random(rng)
       IN  /\ rng' = d.state
           /\ draws' = Append(draws, <<7, d.value>>)
           /\ \E pull \in ToolOutcomes, rmi \in ToolOutcomes :
                Advance(task_github_container_publicbroadcastarr(
                            triggered(d.value, 70, prob_adj), pull, rmi), "task8")
    /\ UNCHANGED Static

task8 ==
    /\ pc = "task8"
    /\ LET d == random_random(rng)
       IN  /\ rng' = d.state
           /\ draws' = Append(draws, <<8, d.value>>)
           /\ \E o \in ToolOutcomes :
                Advance(task_github_npm_heatmap_parse(
                            triggered(d.value, 20, prob_adj), o), "task9")
    /\ UNCHANGED Static

task9 ==
    /\ pc = "task9"
    /\ LET d == random_random(rng)
       IN  /\ rng' = d.state
           /\ draws' = Append(draws, <<9, d.value>>)
           /\ \E pull \in ToolOutcomes, rmi \in ToolOutcomes :
                Advance(task_github_container_svtplayarr(
                            triggered(d.value, 30, prob_adj), pull, rmi), "summary")
    /\ UNCHANGED Static

\* lines 369-375
summary ==
    /\ pc = "summary"
    /\ out' = summary_lines(results)
    /\ pc' = "done"
    /\ answers' = <<>>
    /\ UNCHANGED <<rng, now, week_num, prob_adj, time_time, now_ts, results, calls,
                   draws, prev, schedule, multipliers>>

\* the process has exited and the scheduler invokes the job again, in a fresh
\* interpreter; prev keeps what the finished run decided
reinvoke ==
    /\ pc \in {"done", "crashed"}
    /\ prev' = IF pc = "done"
               THEN << [bucket    |-> now.sec \div 60,
                        window    |-> github_window_open(now_ts),
                        decisions |-> Decisions(results)] >>
               ELSE prev
    /\ pc' = "start"
    /\ rng' \in 0..MaxPrior
    /\ now' = NoTime
    /\ week_num' = 0
    /\ prob_adj' = 0
    /\ time_time' = NoTime
    /\ now_ts' = 0
    /\ results' = <<>>
    /\ out' = <<>>
    /\ calls' = <<>>
    /\ draws' = <<>>
    /\ answers' = <<>>
    /\ UNCHANGED <<schedule, multipliers>>

Run ==
    \/ main_start
    \/ task1
    \/ task2
    \/ task3
    \/ task4
    \/ task5
    \/ task6
    \/ task7
    \/ task8
    \/ task9
    \/ summary

Next == Run \/ reinvoke

\* invocations around the cutoff, one after another
Spec == Init /\ [][Next]_vars

\* one invocation in any of the sampled weeks
SpecWeeks == InitWeeks /\ [][Run]_vars

\* one invocation; main() is sequential and every external call returns or
\* times out, so a run that can take a step eventually takes it
LiveSpec == Init /\ [][Run]_vars /\ WF_vars(Run)

-----------------------------------------------------------------------------
(* week_probability_adjustment on its own: it is called for a week number,  *)
(* again and again, while the rest of the process seeds and draws from the   *)
(* same stream in between                                                    *)

InitAdj ==
    /\ pc = "adj"
    /\ rng \in 0..MaxPrior
    /\ week_num \in DOMAIN SinHalfMilli
    /\ now = NoTime
    /\ prob_adj = 0
    /\ time_time = NoTime
    /\ now_ts = 0
    /\ results = <<>>
    /\ out = <<>>
    /\ calls = <<>>
    /\ draws = <<>>
    /\ answers = <<>>
    /\ prev = <<>>
    /\ schedule = CutoffSchedule
    /\ multipliers = <<>>

AdjStatic == <<pc, now, week_num, time_time, now_ts, results, out, calls, answers,
               prev, schedule>>

\* line 268
adj_call ==
    /\ pc = "adj"
    /\ Len(multipliers) < MaxAdjCalls
    /\ LET a == week_probability_adjustment(week_num, rng)
       IN  /\ prob_adj' = a.value
           /\ multipliers' = Append(multipliers, a.value)
           /\ rng' = a.state
    /\ UNCHANGED draws
    /\ UNCHANGED AdjStatic

\* line 272
adj_seed ==
    /\ pc = "adj"
    /\ \E t \in schedule : rng' = random_seed(run_seed(t))
    /\ UNCHANGED <<prob_adj, multipliers, draws>>
    /\ UNCHANGED AdjStatic

\* a random.random() of main
adj_draw ==
    /\ pc = "adj"
    /\ Len(draws) < MaxAdjCalls
    /\ LET d == random_random(rng)
       IN  /\ rng' = d.state
           /\ draws' = Append(draws, <<0, d.value>>)
    /\ UNCHANGED <<prob_adj, multipliers>>
    /\ UNCHANGED AdjStatic

NextAdj == adj_call \/ adj_seed \/ adj_draw

SpecAdj == InitAdj /\ [][NextAdj]_vars

-----------------------------------------------------------------------------
(* Vocabulary of the properties *)

Last(q) == q[Len(q)]

ReachedSummary == pc \in {"summary", "done"}

\* the names under which a task's outcome is recorded
TaskNames(k) ==
    CASE k = 1 -> {"HuggingFace dataset a0a7/Gregg-1916"}
      [] k = 2 -> {"HuggingFace model a0a7/gregg-recognition"}
      [] k = 3 -> {"npm package fastgeotoolkit", "npm package heatmap-parse",
                   "npm package"}
      [] k = 4 -> {"crates package fastgeotoolkit", "crates package heatmap-parse",
                   "crates package"}
      [] k = 5 -> {"Docker image a0a7/publicbroadcastarr"}
      [] k = 6 -> {"GitHub npm package @a0a7/fastgeotoolkit"}
      [] k = 7 -> {"GitHub container image ghcr.io/a0a7/publicbroadcastarr"}
      [] k = 8 -> {"GitHub npm package @a0a7/heatmap-parse"}
      [] k = 9 -> {"GitHub container image ghcr.io/a0a7/svtplayarr"}

OutcomesOf(k) == Cardinality({i \in 1..Len(results) : results[i][1] \in TaskNames(k)})

\* base probabilities, in hundredths
BasePct(k) ==
    CASE k = 1 -> 100 [] k = 2 -> 30 [] k = 3 -> 85 [] k = 4 -> 95 [] k = 5 -> 40
      [] k = 6 -> 80  [] k = 7 -> 70 [] k = 8 -> 20 [] k = 9 -> 30

Adapters ==
    {"download_huggingface_dataset", "download_huggingface_model",
     "download_npm_package", "download_crates_package", "download_docker_image",
     "download_github_npm_package", "download_github_container_image"}

Checks == {"check_npm_package_exists", "check_crates_package_exists"}

CallsOf(k) == SelectSeq(calls, LAMBDA c : c[1] = k)

AdapterCallsOf(k) == SelectSeq(calls, LAMBDA c : c[1] = k /\ c[2] \in Adapters)

Triggered(i) == results[i][2] # "skipped"

\* the instant a is not after the instant b
TimeLeq(a, b) == a.sec < b.sec \/ (a.sec = b.sec /\ a.frac <= b.frac)

\* the value of the n-th random.random() after random.seed(seed)
RECURSIVE NthState(_, _)
NthState(seed, n) == IF n = 0 THEN seed % 65536 ELSE lcg(NthState(seed, n - 1))

NthDraw(seed, n) == (NthState(seed, n) * 1000) \div 65536

-----------------------------------------------------------------------------
(* C1 *)

\* C1 as claimed: at the summary each of the five always-eligible tasks has
\* exactly one outcome, and each GitHub-hosted task has exactly one when the
\* time read by time.time() is at or before the cutoff instant and none when
\* it is after it; no task ever has two outcomes.
C1_AsClaimed ==
    /\ \A k \in 1..9 : OutcomesOf(k) <= 1
    /\ ReachedSummary =>
         /\ \A k \in 1..5 : OutcomesOf(k) = 1
         /\ \A k \in 6..9 :
              OutcomesOf(k) = IF TimeLeq(time_time, CutoffInstant) THEN 1 ELSE 0

\* C1 as amended: the same, with the GitHub-hosted tasks eligible exactly when
\* the time read by time.time(), cut to whole seconds, is at most 1762339200,
\* that is while the time is before 1762339201.
C1_OneOutcomePerEligibleTask ==
    /\ \A k \in 1..9 : OutcomesOf(k) <= 1
    /\ \A i \in 1..Len(results) : results[i][2] \in {"True", "False", "skipped"}
    /\ ReachedSummary =>
         /\ \A k \in 1..5 : OutcomesOf(k) = 1
         /\ \A k \in 6..9 :
              OutcomesOf(k) = IF time_time.sec <= cutoff_ts THEN 1 ELSE 0
         /\ Len(results) = IF time_time.sec <= cutoff_ts THEN 9 ELSE 5

\* a run made in the second that begins at the cutoff, after the cutoff
\* instant, has reached its summary with all nine outcomes
C1_Witness ==
    /\ pc = "done"
    /\ time_time.sec = cutoff_ts
    /\ time_time.frac > 0
    /\ Len(results) = 9

-----------------------------------------------------------------------------
(* C2 *)

\* C2 as claimed: a run that reaches its summary in the same 60-second bucket
\* as the previous run shows the same sequence of triggered/skipped decisions.
C2_AsClaimed ==
    (pc = "done" /\ prev # <<>> /\ prev[1].bucket = now.sec \div 60)
        => Decisions(results) = prev[1].decisions

\* C2 as amended: in the same bucket the decisions over the five
\* always-eligible tasks are the same, and the whole sequence is the same when
\* both runs fall on the same side of the cutoff test.
C2_SameBucketSameDecisions ==
    (pc = "done" /\ prev # <<>> /\ prev[1].bucket = now.sec \div 60)
        => /\ SubSeq(Decisions(results), 1, 5) = SubSeq(prev[1].decisions, 1, 5)
           /\ (prev[1].window = (time_time.sec <= cutoff_ts))
                 => Decisions(results) = prev[1].decisions

\* two runs of one bucket, both before the cutoff, the second at another
\* second than the bucket's first, with triggered and skipped tasks
C2_Witness ==
    /\ pc = "done"
    /\ prev # <<>>
    /\ prev[1].bucket = now.sec \div 60
    /\ prev[1].window
    /\ time_time.sec < cutoff_ts
    /\ now.sec % 60 # 0
    /\ \E i, j \in 1..Len(results) : Triggered(i) /\ ~Triggered(j)

-----------------------------------------------------------------------------
(* C3 *)

\* C3 as claimed: every task, the dataset task included, has a draw, is
\* triggered exactly when that draw is below base * multiplier, and when
\* skipped makes no existence check and no adapter call.
C3_AsClaimed ==
    pc # "crashed" =>
        \A i \in 1..Len(results) :
            /\ \E j \in 1..Len(draws) :
                 /\ draws[j][1] = i
                 /\ Triggered(i) <=> (draws[j][2] * 100 < BasePct(i) * prob_adj)
            /\ ~Triggered(i) => CallsOf(i) = <<>>

\* C3 as amended: that holds of every task but the dataset task, which takes
\* no draw and is triggered in every run.
C3_TriggeredBelowThreshold ==
    pc # "crashed" =>
        \A i \in 1..Len(results) :
            IF i = 1
            THEN /\ Triggered(1)
                 /\ \A j \in 1..Len(draws) : draws[j][1] # 1
                 /\ Len(AdapterCallsOf(1)) = 1
            ELSE /\ Cardinality({j \in 1..Len(draws) : draws[j][1] = i}) = 1
                 /\ \A j \in 1..Len(draws) :
                      draws[j][1] = i =>
                        (Triggered(i) <=> (draws[j][2] * 100 < BasePct(i) * prob_adj))
                 /\ ~Triggered(i) => CallsOf(i) = <<>>
                 /\ Triggered(i) => Len(AdapterCallsOf(i)) = 1

\* a finished run of nine tasks in a week whose multiplier is below 1, in
\* which a draw below the base probability but not below the adjusted one
\* skipped its task, and the dataset task ran
C3_Witness ==
    /\ pc = "done"
    /\ Len(results) = 9
    /\ prob_adj < 1000
    /\ Triggered(1)
    /\ \E j \in 1..Len(draws) :
         /\ draws[j][2] * 100 < BasePct(draws[j][1]) * 1000
         /\ ~Triggered(draws[j][1])

-----------------------------------------------------------------------------
(* C4 *)

CheckFn(k) == IF k = 3 THEN "check_npm_package_exists" ELSE "check_crates_package_exists"
FetchFn(k) == IF k = 3 THEN "download_npm_package" ELSE "download_crates_package"
FetchCmd(k) == IF k = 3 THEN "npm pack" ELSE "cargo install"
FetchedName(k, id) ==
    CASE k = 3 /\ id = "fastgeotoolkit" -> "npm package fastgeotoolkit"
      [] k = 3 /\ id = "heatmap-parse"  -> "npm package heatmap-parse"
      [] k = 4 /\ id = "fastgeotoolkit" -> "crates package fastgeotoolkit"
      [] k = 4 /\ id = "heatmap-parse"  -> "crates package heatmap-parse"

\* C4: right after a triggered npm (task 3) or crates (task 4) task, the task
\* has made one existence check, on fastgeotoolkit, and one fetch: of
\* fastgeotoolkit when the check answered 200, of heatmap-parse when it
\* answered anything else or raised; its status is the result of that fetch.
C4_PrimaryOrFallback ==
    \A k \in {3, 4} :
        (pc = (IF k = 3 THEN "task4" ELSE "task5") /\ Triggered(k)) =>
            LET id == IF answers[1] = "200" THEN "fastgeotoolkit" ELSE "heatmap-parse"
            IN  /\ Len(answers) = 2
                /\ CallsOf(k) = << <<k, CheckFn(k), <<"fastgeotoolkit">> >>,
                                   <<k, FetchFn(k), <<id>> >>,
                                   <<k, FetchCmd(k), <<id>> >> >>
                /\ results[k] = <<FetchedName(k, id),
                                  IF answers[2] = "exit_0" THEN "True" ELSE "False">>

\* the npm existence check raised and the fallback was fetched with success
C4_Witness ==
    /\ pc = "task4"
    /\ answers = <<"raise", "exit_0">>
    /\ results[3] = <<"npm package heatmap-parse", "True">>

-----------------------------------------------------------------------------
(* C5 *)

\* the answer the latest task's fetch command got
FetchAnswer == IF Len(results) \in {3, 4} THEN answers[2] ELSE answers[1]

\* C5: no exception leaves a task; a task whose fetch command fails in any
\* way is recorded as a failure; and a run reaches its summary with an
\* outcome for every eligible task, whatever failed before.
C5_ErrorsContained ==
    /\ pc # "crashed"
    /\ (pc \notin {"start", "task1"} /\ answers # <<>>) =>
          (FetchAnswer \notin {"ok", "exit_0"} => Last(results)[2] = "False")
    /\ ReachedSummary => Len(results) = IF time_time.sec <= cutoff_ts THEN 9 ELSE 5

\* a finished run of nine tasks whose first task failed and in which no
\* fetch succeeded, the failures being followed by later outcomes
C5_Witness ==
    /\ pc = "done"
    /\ Len(results) = 9
    /\ results[1][2] = "False"
    /\ results[3][2] = "False"
    /\ \A i \in 1..9 : results[i][2] # "True"

-----------------------------------------------------------------------------
(* C6 *)

\* C6: every run reaches the end of its summary, and the summary then holds
\* the header, one line per recorded outcome in the order of the results, of
\* which there is one per eligible task, and the completion line last.
C6_SummaryAlwaysEmitted ==
    /\ <>(pc = "done")
    /\ [](pc = "done" =>
            /\ Len(results) = IF time_time.sec <= cutoff_ts THEN 9 ELSE 5
            /\ Len(out) = Len(results) + 2
            /\ \A i \in 1..Len(results) :
                 out[i + 1] = <<"  task: result", results[i][1], results[i][2]>>
            /\ Last(out) = <<"Job completed at">>)

\* the summary was emitted by a run in which every triggered task failed
C6_Witness ==
    /\ pc = "done"
    /\ Len(out) = 11
    /\ \A i \in 1..9 : results[i][2] # "True"
    /\ \E i \in 2..9 : results[i][2] = "False"

-----------------------------------------------------------------------------
(* C7 *)

DockerTasks == {5, 7, 9}

\* C7 as claimed: the removal is run only after a pull that succeeded, and
\* a task whose removal was run is recorded as a success.
C7_AsClaimed ==
    pc # "crashed" =>
        \A k \in DockerTasks :
            (k <= Len(results) /\ \E i \in 1..Len(calls) :
                                      calls[i][1] = k /\ calls[i][2] = "docker rmi")
                => /\ results[k][2] = "True"
                   /\ \E i \in 1..Len(calls) :
                        calls[i][1] = k /\ calls[i][2] = "docker pull"

-----------------------------------------------------------------------------
(* C8 *)

\* C8: every multiplier week_probability_adjustment returns lies in
\* [0.7, 1.35], and all calls for one week number return the same value,
\* whatever the stream was seeded with or had drawn before each call.
C8_MultiplierOfWeekOnly ==
    \A i \in 1..Len(multipliers) :
        /\ 700 <= multipliers[i]
        /\ multipliers[i] <= 1350
        /\ multipliers[i] = multipliers[1]

\* two calls for the same week, the stream having been seeded by main and
\* drawn from in between
C8_Witness ==
    /\ Len(multipliers) = 2
    /\ Len(draws) = 2
    /\ rng # random_random(random_seed(xor(week_num, JitterSeedMask))).state

-----------------------------------------------------------------------------
(* C9 *)

\* C9: a task calls a fetch adapter at most once: once when it is triggered,
\* never when it is skipped; so the npm and crates tasks fetch one identifier.
C9_OneAttempt ==
    /\ \A k \in 1..9 : Len(AdapterCallsOf(k)) <= 1
    /\ pc # "crashed" =>
         \A i \in 1..Len(results) :
             Len(AdapterCallsOf(i)) = IF Triggered(i) THEN 1 ELSE 0

\* the fetch of the preferred npm package failed and the run went on to its
\* end with that one adapter call for the task
C9_Witness ==
    /\ pc = "done"
    /\ results[3] = <<"npm package fastgeotoolkit", "False">>
    /\ AdapterCallsOf(3) = << <<3, "download_npm_package", <<"fastgeotoolkit">> >> >>

-----------------------------------------------------------------------------
(* C10 *)

\* C10: the j-th draw of a run is the draw of task j + 1 and is the j-th
\* value of the stream seeded with the run's bucket, whatever the earlier
\* tasks did; so each task's decision is fixed by the seed and the multiplier.
C10_DrawsInTaskOrder ==
    pc # "crashed" =>
        /\ \A j \in 1..Len(draws) :
             draws[j] = <<j + 1, NthDraw(now.sec \div 60, j)>>
        /\ \A i \in 2..Len(results) :
             Triggered(i) <=>
                (NthDraw(now.sec \div 60, i - 1) * 100 < BasePct(i) * prob_adj)
        /\ Len(draws) = IF Len(results) = 0 THEN 0 ELSE Len(results) - 1

\* a finished run of nine tasks with eight draws, in which a task was
\* triggered after an earlier one was skipped, another failed and another
\* succeeded
C10_Witness ==
    /\ pc = "done"
    /\ Len(draws) = 8
    /\ \E i, j, k, l \in 1..9 :
         /\ results[i][2] = "skipped"
         /\ results[j][2] = "False"
         /\ results[k][2] = "True"
         /\ i < l /\ j < l /\ k < l
         /\ Triggered(l)

====
